---------------------------- MODULE Spec2Model ----------------------------
(***************************************************************************)
(* Statto -> model bridge (statto_bridge.py) and its batch driver           *)
(* (batch_ingest_statto.py).                                                *)
(*                                                                          *)
(* A table (pandas DataFrame) is a sequence of records, in row order.       *)
(* A cell that a merge may leave missing is an option: <<>> is the missing  *)
(* marker (NaN), <<v>> a present value v.  Text is a sequence of            *)
(* one-character strings.                                                   *)
(***************************************************************************)
EXTENDS Integers, Sequences, FiniteSets, TLC

VARIABLES
    df_player,   \* Player Stats table: rows [Player, PointsPlayed]
    df_points,   \* Points table
    df_passes,   \* Passes table
    df_blocks,   \* Defensive Blocks table
    df_poss,     \* Possessions table
    pc,          \* position of the single-game run
    roster,      \* result of expand_roster_from_player_stats
    actions,     \* result of aggregate_passes
    ctx,         \* result of build_point_context_with_possessions
    out,         \* result of build_per_player_per_point
    games,       \* batch driver: the game folders, in sorted order
    gi,          \* batch driver: index of the game being processed
    bpc,         \* batch driver: position in main()
    all_rows,    \* batch driver: list of per-game fact tables
    all_ptsum,   \* batch driver: list of per-game summary tables
    written,     \* batch driver: files written, per game folder
    season       \* batch driver: the season-level tables written

vars == <<df_player, df_points, df_passes, df_blocks, df_poss, pc, roster,
          actions, ctx, out, games, gi, bpc, all_rows, all_ptsum, written, season>>

gameVars == <<df_player, df_points, df_passes, df_blocks, df_poss>>
batchVars == <<games, gi, bpc, all_rows, all_ptsum, written, season>>

---------------------------------------------------------------------------
(* Bounds of the model *)

MaxPasses == 3      \* rows of a Passes table
MaxPointRows == 2   \* rows of a Points table
MaxPossRows == 2    \* rows of a Possessions table
MaxGameRows == 3    \* point + pass + block + possession rows of a whole game
MaxGames == 3       \* game folders of a batch run
MaxRawLen == 4      \* characters of a points-played text

Players == {"A", "B"}
PlayerOrder == <<"A", "B">>     \* ascending string order
PointNumbers == {1, 2}
PossessionNumbers == {1, 2}
Flags == {0, 1}

---------------------------------------------------------------------------
(* Generic helpers *)

Null == <<>>
Some(v) == <<v>>

SeqsUpTo(S, n) == UNION {[1..k -> S] : k \in 0..n}

RECURSIVE SumSeq(_)
SumSeq(s) == IF s = <<>> THEN 0 ELSE Head(s) + SumSeq(Tail(s))

RECURSIVE ConcatAll(_)
ConcatAll(ss) == IF ss = <<>> THEN <<>> ELSE Head(ss) \o ConcatAll(Tail(ss))

Column(t, c) == [i \in DOMAIN t |-> t[i][c]]

CountIf(t, P(_)) == Cardinality({i \in DOMAIN t : P(t[i])})

PlayerRank(p) == CHOOSE i \in DOMAIN PlayerOrder : PlayerOrder[i] = p

Key(point, player) == [Point |-> point, Player |-> player]
KeyOf(r) == Key(r.Point, r.Player)
KeyLess(a, b) ==
    \/ a.Point < b.Point
    \/ a.Point = b.Point /\ PlayerRank(a.Player) < PlayerRank(b.Player)

RECURSIVE SortedKeys(_)
SortedKeys(S) ==
    IF S = {} THEN <<>>
    ELSE LET m == CHOOSE x \in S : \A y \in S \ {x} : KeyLess(x, y)
         IN  <<m>> \o SortedKeys(S \ {m})

RECURSIVE SortedInts(_)
SortedInts(S) ==
    IF S = {} THEN <<>>
    ELSE LET m == CHOOSE x \in S : \A y \in S : x <= y
         IN  <<m>> \o SortedInts(S \ {m})

(* pandas merge(how="left"): every left row, in order, once per matching    *)
(* right row (in right order); the right columns are missing when no right  *)
(* row matches.  Right columns arrive as options.                           *)
LeftMerge(left, right, on, rcols) ==
    LET match(l) == SelectSeq(right, LAMBDA r : \A k \in on : r[k] = l[k])
        joined(l) ==
            IF match(l) = <<>>
            THEN << l @@ [c \in rcols |-> Null] >>
            ELSE [j \in DOMAIN match(l) |->
                     l @@ [c \in rcols |-> Some(match(l)[j][c])]]
    IN  ConcatAll([i \in DOMAIN left |-> joined(left[i])])

FillNa(x, d) == IF x = Null THEN d ELSE x[1]

---------------------------------------------------------------------------
(* _aggregate_passes *)

ThrowCols == {"throws", "completions", "turnovers", "assists",
              "secondary_assists", "hucks", "swings", "dumps", "throw_yards"}
CatchCols == {"catches", "received_yards", "goals"}

(* groupby(["Point","Thrower"]).agg(...): one row per key, keys ascending *)
throw_side(passes) ==
    LET keys == SortedKeys({Key(passes[i].Point, passes[i].Thrower) :
                                i \in DOMAIN passes})
        grp(k) == SelectSeq(passes,
                     LAMBDA e : e.Point = k.Point /\ e.Thrower = k.Player)
    IN  [i \in DOMAIN keys |->
            LET g == grp(keys[i])
            IN  [Point |-> keys[i].Point,
                 Player |-> keys[i].Player,
                 throws |-> Len(g),
                 completions |-> CountIf(g, LAMBDA e : e.Turnover = 0),
                 turnovers |-> CountIf(g, LAMBDA e : e.Turnover = 1),
                 assists |-> SumSeq(Column(g, "Assist")),
                 secondary_assists |-> SumSeq(Column(g, "SecondaryAssist")),
                 hucks |-> SumSeq(Column(g, "Huck")),
                 swings |-> SumSeq(Column(g, "Swing")),
                 dumps |-> SumSeq(Column(g, "Dump")),
                 throw_yards |-> SumSeq(Column(g, "Distance"))]]

completed_all(passes) == passes

(* df_passes[df_passes["Turnover?"] == 0] *)
completed(passes) == SelectSeq(passes, LAMBDA e : e.Turnover = 0)

(* groupby(["Point","Receiver"]).agg(...) over the completed passes *)
catch_side(passes) ==
    LET done == completed(passes)
        keys == SortedKeys({Key(done[i].Point, done[i].Receiver) :
                                i \in DOMAIN done})
        grp(k) == SelectSeq(done,
                     LAMBDA e : e.Point = k.Point /\ e.Receiver = k.Player)
    IN  [i \in DOMAIN keys |->
            LET g == grp(keys[i])
            IN  [Point |-> keys[i].Point,
                 Player |-> keys[i].Player,
                 catches |-> Len(g),
                 received_yards |-> SumSeq(Column(g, "Distance")),
                 goals |-> CountIf(g, LAMBDA e : e.Assist = 1)]]

(* the result of a merge on (Point, Player), given which key pairs it keeps *)
MergeOnKeys(keys, throws, catches) ==
    LET l(k) == SelectSeq(throws, LAMBDA r : KeyOf(r) = k)
        r(k) == SelectSeq(catches, LAMBDA x : KeyOf(x) = k)
        lw(k) == IF l(k) = <<>> THEN << [c \in ThrowCols |-> Null] >>
                 ELSE [i \in DOMAIN l(k) |->
                          [c \in ThrowCols |-> Some(l(k)[i][c])]]
        rw(k) == IF r(k) = <<>> THEN << [c \in CatchCols |-> Null] >>
                 ELSE [j \in DOMAIN r(k) |->
                          [c \in CatchCols |-> Some(r(k)[j][c])]]
        rowsOf(k) == ConcatAll([i \in DOMAIN lw(k) |->
                        [j \in DOMAIN rw(k) |-> k @@ lw(k)[i] @@ rw(k)[j]]])
        order == SortedKeys(keys)
    IN  ConcatAll([n \in DOMAIN order |-> rowsOf(order[n])])

TableKeys(t) == {KeyOf(t[i]) : i \in DOMAIN t}

merge_inner(throws, catches) ==
    MergeOnKeys(TableKeys(throws) \cap TableKeys(catches), throws, catches)

(* pd.merge(throws, catches, on=["Point","Player"], how="outer") *)
merge_outer(throws, catches) ==
    MergeOnKeys(TableKeys(throws) \cup TableKeys(catches), throws, catches)

(* .fillna(0) and the dtype normalisation *)
fill_actions(t) ==
    [i \in DOMAIN t |->
        [c \in DOMAIN t[i] |->
            IF c \in {"Point", "Player"} THEN t[i][c] ELSE FillNa(t[i][c], 0)]]

aggregate_passes(passes) ==
    fill_actions(merge_outer(throw_side(passes), catch_side(passes)))

ActionCols == ThrowCols \cup CatchCols

---------------------------------------------------------------------------
(* _aggregate_blocks *)

blocks_per_event(blocks) ==
    [i \in DOMAIN blocks |-> KeyOf(blocks[i]) @@ [blocks |-> 1]]

blocks_flagged(blocks) ==
    LET keys == SortedKeys(TableKeys(blocks))
    IN  [i \in DOMAIN keys |-> keys[i] @@ [blocks |-> 1]]

aggregate_blocks(blocks) ==
    IF blocks = <<>> THEN <<>>
    ELSE LET keys == SortedKeys(TableKeys(blocks))
         IN  [i \in DOMAIN keys |->
                 keys[i] @@ [blocks |->
                     CountIf(blocks, LAMBDA b : KeyOf(b) = keys[i])]]

---------------------------------------------------------------------------
(* _build_point_context_with_possessions *)

AsInt(b) == IF b THEN 1 ELSE 0

(* the selected and renamed Points columns, team_line and point_result *)
normalize_points(points) ==
    [i \in DOMAIN points |->
        [Point |-> points[i].Point,
         Started |-> points[i].Started,
         Scored |-> points[i].Scored,
         our_score_start |-> points[i].OurScore,
         opp_score_start |-> points[i].OppScore,
         point_possessions_total |-> points[i].Possessions,
         point_passes_total |-> points[i].Passes,
         point_turnovers_total |-> points[i].Turnovers,
         point_blocks_total |-> points[i].Blocks,
         team_line |-> IF points[i].Started = 1 THEN Some("O")
                       ELSE IF points[i].Started = 0 THEN Some("D") ELSE Null,
         point_result |-> points[i].Scored]]

PointsOf(t) == SortedInts({t[i].Point : i \in DOMAIN t})
RowsOfPoint(t, p) == SelectSeq(t, LAMBDA r : r.Point = p)

possession_counts_per_row(poss) ==
    [j \in DOMAIN poss |-> [Point |-> poss[j].Point, num_possessions |-> 1]]

(* groupby("Point").agg(num_possessions=("Possession","nunique")) *)
possession_counts(poss) ==
    LET pts == PointsOf(poss)
    IN  [i \in DOMAIN pts |->
            [Point |-> pts[i],
             num_possessions |->
                 Cardinality({r.Possession : r \in
                     {poss[j] : j \in {j \in DOMAIN poss : poss[j].Point = pts[i]}}})]]

PossLessEq(a, b) ==
    \/ a.Point < b.Point
    \/ a.Point = b.Point /\ a.Possession <= b.Possession

RECURSIVE InsertPoss(_, _)
InsertPoss(sorted, x) ==
    IF sorted = <<>> THEN <<x>>
    ELSE IF PossLessEq(Head(sorted), x)
         THEN <<Head(sorted)>> \o InsertPoss(Tail(sorted), x)
         ELSE <<x>> \o sorted

(* sort_values(["Point","Possession"]): ascending, equal keys in input order *)
RECURSIVE SortPoss(_)
SortPoss(poss) ==
    IF poss = <<>> THEN <<>>
    ELSE InsertPoss(SortPoss(SubSeq(poss, 1, Len(poss) - 1)), poss[Len(poss)])

first_possession_unsorted(poss) ==
    LET pts == PointsOf(poss)
    IN  [i \in DOMAIN pts |->
            [Point |-> pts[i],
             first_possession_scored |-> Head(RowsOfPoint(poss, pts[i])).Scored]]

(* sort_values(...).groupby("Point").first(), column Scored? *)
first_possession(poss) ==
    LET sorted == SortPoss(poss)
        pts == PointsOf(poss)
    IN  [i \in DOMAIN pts |->
            [Point |-> pts[i],
             first_possession_scored |-> Head(RowsOfPoint(sorted, pts[i])).Scored]]

MaxOf(S) == CHOOSE x \in S : \A y \in S : y <= x

(* groupby("Point")["Scored?"].max() *)
any_possession(poss) ==
    LET pts == PointsOf(poss)
    IN  [i \in DOMAIN pts |->
            [Point |-> pts[i],
             any_possession_scored |->
                 MaxOf({poss[j].Scored : j \in
                           {j \in DOMAIN poss : poss[j].Point = pts[i]}})]]

(* the three left merges on Point *)
merge_possessions(p, poss) ==
    LeftMerge(
        LeftMerge(
            LeftMerge(p, possession_counts(poss), {"Point"}, {"num_possessions"}),
            first_possession(poss), {"Point"}, {"first_possession_scored"}),
        any_possession(poss), {"Point"}, {"any_possession_scored"})

PossCols == {"num_possessions", "first_possession_scored", "any_possession_scored"}

(* fillna(0) of the possession columns *)
fill_possessions(t) ==
    [i \in DOMAIN t |->
        [c \in DOMAIN t[i] |->
            IF c \in PossCols THEN FillNa(t[i][c], 0) ELSE t[i][c]]]

tag_clean_hold(soff, scored, num_pos) == AsInt(soff /\ scored /\ num_pos = 1)
tag_hold(soff, scored, num_pos) == AsInt(soff /\ scored)
tag_broken_on_offense(soff, scored, num_pos) == AsInt(soff)
tag_broken(soff, scored, num_pos) == AsInt(soff /\ ~scored)
tag_break_scored(soff, scored, num_pos) == AsInt(~soff /\ scored)
tag_break_chance(soff, scored, num_pos) == AsInt(~soff /\ num_pos > 0)

add_tags(t) ==
    [i \in DOMAIN t |->
        LET soff == t[i].Started = 1
            scored == t[i].point_result = 1
            num_pos == t[i].num_possessions
        IN  t[i] @@ [clean_hold |-> tag_clean_hold(soff, scored, num_pos),
                     hold |-> tag_hold(soff, scored, num_pos),
                     broken |-> tag_broken(soff, scored, num_pos),
                     break_scored |-> tag_break_scored(soff, scored, num_pos),
                     break_chance |-> tag_break_chance(soff, scored, num_pos)]]

build_point_context_with_possessions(points, poss) ==
    add_tags(fill_possessions(merge_possessions(normalize_points(points), poss)))

---------------------------------------------------------------------------
(* Text: str.split(","), str.strip(), str.isdigit(), int(), "{:02d}" *)

Digits == <<"0", "1", "2", "3", "4", "5", "6", "7", "8", "9">>
IsDigitChar(c) == \E i \in DOMAIN Digits : Digits[i] = c
DigitVal(c) == (CHOOSE i \in DOMAIN Digits : Digits[i] = c) - 1

RECURSIVE SplitComma(_)
SplitComma(s) ==
    IF \A i \in DOMAIN s : s[i] # ","
    THEN <<s>>
    ELSE LET i == CHOOSE i \in DOMAIN s :
                      s[i] = "," /\ \A j \in 1..(i - 1) : s[j] # ","
         IN  <<SubSeq(s, 1, i - 1)>> \o SplitComma(SubSeq(s, i + 1, Len(s)))

strip_none(s) == s

(* str.strip() *)
RECURSIVE Strip(_)
Strip(s) ==
    IF s = <<>> THEN s
    ELSE IF Head(s) = " " THEN Strip(Tail(s))
    ELSE IF s[Len(s)] = " " THEN Strip(SubSeq(s, 1, Len(s) - 1))
    ELSE s

IsDigit(s) == s # <<>> /\ \A i \in DOMAIN s : IsDigitChar(s[i])

RECURSIVE ToInt(_)
ToInt(s) ==
    IF s = <<>> THEN 0
    ELSE 10 * ToInt(SubSeq(s, 1, Len(s) - 1)) + DigitVal(s[Len(s)])

RECURSIVE Decimal(_)
Decimal(n) ==
    IF n < 10 THEN <<Digits[n + 1]>>
    ELSE Decimal(n \div 10) \o <<Digits[(n % 10) + 1]>>

format_unpadded(n) == Decimal(n)

(* f"{n:02d}" *)
Format02d(n) == IF n < 10 THEN <<"0">> \o Decimal(n) ELSE Decimal(n)

point_uid_two_wide(game_id, point) ==
    game_id \o <<"_", "P">> \o Format02d(point % 100)

(* f"{game_id}_P{int(x):02d}" *)
point_uid(game_id, point) == game_id \o <<"_", "P">> \o Format02d(point)

---------------------------------------------------------------------------
(* _expand_roster_from_player_stats *)

numeric_tokens(raw) ==
    IF raw = <<>> THEN <<>>
    ELSE LET tokens == SplitComma(raw)
             stripped == [i \in DOMAIN tokens |-> Strip(tokens[i])]
         IN  SelectSeq(stripped, IsDigit)

expand_roster_from_player_stats(players) ==
    ConcatAll([i \in DOMAIN players |->
        LET toks == numeric_tokens(players[i].PointsPlayed)
        IN  [j \in DOMAIN toks |->
                [Player |-> players[i].Player, Point |-> ToInt(toks[j])]]])

---------------------------------------------------------------------------
(* build_per_player_per_point *)

FillNaOpt(x, d) == IF x = Null THEN Some(d) ELSE x

StatCols == {"throws", "completions", "turnovers", "assists", "secondary_assists",
             "hucks", "swings", "dumps", "throw_yards", "catches",
             "received_yards", "goals", "blocks"}

(* roster.merge(actions, how="left").merge(blocks, how="left") *)
merge_roster(entries, acts, blks) ==
    LeftMerge(LeftMerge(entries, acts, {"Point", "Player"}, ActionCols),
              blks, {"Point", "Player"}, {"blocks"})

fill_stats_none(pp) == pp

(* for col in [...]: pp[col] = pp[col].fillna(0) *)
fill_stats(pp) ==
    [i \in DOMAIN pp |->
        [c \in DOMAIN pp[i] |->
            IF c \in StatCols THEN FillNaOpt(pp[i][c], 0) ELSE pp[i][c]]]

(* x + y on cells that may be missing: missing if either is *)
AddOpt(x, y) == IF x = Null \/ y = Null THEN Null ELSE Some(x[1] + y[1])
SubOpt(x, y) == IF x = Null \/ y = Null THEN Null ELSE Some(x[1] - y[1])

add_touches_throws_only(pp) ==
    [i \in DOMAIN pp |-> pp[i] @@ [touches |-> pp[i].throws]]

(* pp["touches"] = pp.get("throws", 0) + pp.get("catches", 0) *)
add_touches(pp) ==
    [i \in DOMAIN pp |->
        pp[i] @@ [touches |-> AddOpt(pp[i].throws, pp[i].catches)]]

CtxCols == {"team_line", "point_result", "our_score_start", "opp_score_start",
            "point_possessions_total", "point_passes_total",
            "point_turnovers_total", "point_blocks_total",
            "num_possessions", "first_possession_scored",
            "any_possession_scored",
            "clean_hold", "hold", "broken", "break_scored", "break_chance"}

merge_context_inner(pp, context) ==
    LET known == SelectSeq(pp, LAMBDA r :
                     \E j \in DOMAIN context : context[j].Point = r.Point)
        m == LeftMerge(known, context, {"Point"}, CtxCols)
    IN  [i \in DOMAIN m |->
            [c \in DOMAIN m[i] |->
                IF c = "team_line" /\ m[i][c] # Null THEN m[i][c][1] ELSE m[i][c]]]

(* pp.merge(ctx[[...]], on="Point", how="left"); team_line is already a cell *)
merge_context(pp, context) ==
    LET m == LeftMerge(pp, context, {"Point"}, CtxCols)
    IN  [i \in DOMAIN m |->
            [c \in DOMAIN m[i] |->
                IF c = "team_line" /\ m[i][c] # Null THEN m[i][c][1] ELSE m[i][c]]]

(* the cells of a merged row that the final table casts with astype(int) *)
IntCast(r) ==
    [touches |-> r.touches,
     throws |-> r.throws,
     completions |-> r.completions,
     assists |-> r.assists,
     secondary_assists |-> r.secondary_assists,
     goals |-> r.goals,
     turnovers |-> r.turnovers,
     blocks |-> FillNaOpt(r.blocks, 0),
     score_diff_start |-> SubOpt(r.our_score_start, r.opp_score_start),
     point_result |-> r.point_result,
     num_possessions |-> r.num_possessions,
     clean_hold |-> r.clean_hold,
     hold |-> r.hold,
     broken |-> r.broken,
     break_scored |-> r.break_scored,
     break_chance |-> r.break_chance,
     hucks |-> r.hucks,
     swings |-> r.swings,
     dumps |-> r.dumps]

(* astype(int) raises on a missing cell *)
CastRaises(pp) ==
    \E i \in DOMAIN pp : \E c \in DOMAIN IntCast(pp[i]) : IntCast(pp[i])[c] = Null

(* rows = pd.DataFrame({...}) *)
final_rows(pp, game_id) ==
    [i \in DOMAIN pp |->
        [c \in DOMAIN IntCast(pp[i]) |-> IntCast(pp[i])[c][1]]
        @@ [game_id |-> game_id,
            point_uid |-> point_uid(game_id, pp[i].Point),
            team_line |-> pp[i].team_line,
            player |-> pp[i].Player,
            pulls |-> 0,
            yards_gain_m |-> AddOpt(pp[i].throw_yards, pp[i].received_yards)]]

(* ptsum = ctx.copy() plus game_id and point_uid *)
point_summary(context, game_id) ==
    [i \in DOMAIN context |->
        context[i] @@ [game_id |-> game_id,
                       point_uid |-> point_uid(game_id, context[i].Point)]]

merged_rows(players, points, passes, blks, poss) ==
    merge_context(
        add_touches(fill_stats(
            merge_roster(expand_roster_from_player_stats(players),
                         aggregate_passes(passes),
                         aggregate_blocks(blks)))),
        build_point_context_with_possessions(points, poss))

build_per_player_per_point(players, points, passes, blks, poss, game_id) ==
    LET pp == merged_rows(players, points, passes, blks, poss)
    IN  IF CastRaises(pp)
        THEN [raised |-> TRUE, rows |-> <<>>, ptsum |-> <<>>]
        ELSE [raised |-> FALSE,
              rows |-> final_rows(pp, game_id),
              ptsum |-> point_summary(
                  build_point_context_with_possessions(points, poss), game_id)]

---------------------------------------------------------------------------
(* Input tables *)

Flag(t, a, sa, h, sw, d, dist) ==
    [Turnover |-> t, Assist |-> a, SecondaryAssist |-> sa, Huck |-> h,
     Swing |-> sw, Dump |-> d, Distance |-> dist]

CompletedSwing == Flag(0, 0, 0, 0, 1, 0, 3)
TurnoverHuck == Flag(1, 0, 0, 1, 0, 0, 30)
AssistPass == Flag(0, 1, 0, 0, 0, 0, 12)
SecondaryDump == Flag(0, 0, 1, 0, 0, 1, -2)
TurnoverAssist == Flag(1, 1, 0, 0, 0, 0, 7)

PassKinds == {CompletedSwing, TurnoverHuck, AssistPass, SecondaryDump,
              TurnoverAssist}
GamePassKinds == {AssistPass, TurnoverHuck}

PassEventsOf(kinds) ==
    {[Point |-> p, Thrower |-> t, Receiver |-> r] @@ k :
        p \in PointNumbers, t \in Players, r \in Players, k \in kinds}

PassEvents == {e \in PassEventsOf(PassKinds) : e.Thrower # e.Receiver}
GamePassEvents == {e \in PassEventsOf(GamePassKinds) : e.Thrower # e.Receiver}

BlockEvents == {[Point |-> p, Player |-> b] : p \in PointNumbers, b \in Players}

PossRows ==
    {[Point |-> p, Possession |-> n, Scored |-> f] :
        p \in PointNumbers, n \in PossessionNumbers, f \in Flags}
GamePossRows == {r \in PossRows : r.Possession = r.Scored + 1}

PointRow(p, soff, scored) ==
    [Point |-> p, Started |-> soff, Scored |-> scored,
     OurScore |-> p, OppScore |-> 1, Possessions |-> 2, Passes |-> 5,
     Turnovers |-> 1, Blocks |-> 0]

PointRows == {PointRow(p, soff, scored) : p \in PointNumbers, soff \in Flags, scored \in Flags}
GamePointRows == {r \in PointRows : r.Started = r.Scored}

PointsPlayedChoices ==
    { <<>>,
      <<"1">>,
      <<"2", ",", "1">>,
      <<"1", ",", "1">>,
      <<"x", ",", " ", "2">> }

(* one Player Stats row per player; the last player's list is a short one *)
PlayerTables ==
    {[i \in DOMAIN PlayerOrder |->
         [Player |-> PlayerOrder[i], PointsPlayed |-> f[i]]] :
        f \in {g \in [DOMAIN PlayerOrder -> PointsPlayedChoices] :
                  Len(g[Len(PlayerOrder)]) <= 1}}

GameId == <<"G", "1">>

NoOutput == [raised |-> FALSE, rows |-> <<>>, ptsum |-> <<>>]

---------------------------------------------------------------------------
(* One game: build_per_player_per_point applied to its five tables *)

BatchIdle ==
    /\ games = <<>>
    /\ gi = 0
    /\ bpc = "idle"
    /\ all_rows = <<>>
    /\ all_ptsum = <<>>
    /\ written = <<>>
    /\ season = <<>>

Init ==
    /\ df_player \in PlayerTables
    /\ df_points \in SeqsUpTo(GamePointRows, MaxGameRows)
    /\ df_passes \in SeqsUpTo(GamePassEvents, MaxGameRows - Len(df_points))
    /\ df_blocks \in SeqsUpTo(BlockEvents,
                              MaxGameRows - Len(df_points) - Len(df_passes))
    /\ df_poss \in SeqsUpTo(GamePossRows,
                            MaxGameRows - Len(df_points) - Len(df_passes)
                                        - Len(df_blocks))
    /\ pc = "game"
    /\ roster = <<>>
    /\ actions = <<>>
    /\ ctx = <<>>
    /\ out = NoOutput
    /\ BatchIdle

Build ==
    /\ pc = "game"
    /\ out' = build_per_player_per_point(df_player, df_points, df_passes,
                                          df_blocks, df_poss, GameId)
    /\ pc' = IF out'.raised THEN "raised" ELSE "returned"
    /\ UNCHANGED <<gameVars, roster, actions, ctx, batchVars>>

Next == Build

Spec == Init /\ [][Next]_vars

---------------------------------------------------------------------------
(* The pass aggregator alone, on every Passes table within the bound *)

InitPasses ==
    /\ df_passes \in SeqsUpTo(PassEvents, MaxPasses)
    /\ df_player = <<>>
    /\ df_points = <<>>
    /\ df_blocks = <<>>
    /\ df_poss = <<>>
    /\ pc = "passes"
    /\ roster = <<>>
    /\ actions = <<>>
    /\ ctx = <<>>
    /\ out = NoOutput
    /\ BatchIdle

AggregatePasses ==
    /\ pc = "passes"
    /\ actions' = aggregate_passes(df_passes)
    /\ pc' = "aggregated"
    /\ UNCHANGED <<gameVars, roster, ctx, out, batchVars>>

NextPasses == AggregatePasses

SpecPasses == InitPasses /\ [][NextPasses]_vars

---------------------------------------------------------------------------
(* The point context builder alone, on every Points and Possessions table  *)
(* within the bounds                                                       *)

InitContext ==
    /\ df_points \in SeqsUpTo(PointRows, MaxPointRows)
    /\ df_poss \in SeqsUpTo(PossRows, MaxPossRows)
    /\ df_player = <<>>
    /\ df_passes = <<>>
    /\ df_blocks = <<>>
    /\ pc = "context"
    /\ roster = <<>>
    /\ actions = <<>>
    /\ ctx = <<>>
    /\ out = NoOutput
    /\ BatchIdle

BuildPointContext ==
    /\ pc = "context"
    /\ ctx' = build_point_context_with_possessions(df_points, df_poss)
    /\ pc' = "built"
    /\ UNCHANGED <<gameVars, roster, actions, out, batchVars>>

NextContext == BuildPointContext

SpecContext == InitContext /\ [][NextContext]_vars

---------------------------------------------------------------------------
(* The two drivers: batch_ingest_statto.main and statto_bridge.main *)

Alphabet == Digits \o <<"G">>       \* ascending character order
CharRank(c) == CHOOSE i \in DOMAIN Alphabet : Alphabet[i] = c

RECURSIVE TextLess(_, _)
TextLess(a, b) ==
    IF b = <<>> THEN FALSE
    ELSE IF a = <<>> THEN TRUE
    ELSE IF Head(a) = Head(b) THEN TextLess(Tail(a), Tail(b))
    ELSE CharRank(Head(a)) < CharRank(Head(b))

GameNames == {<<"G", "1">>, <<"G", "1", "0">>, <<"G", "2">>, <<"G", "3">>}

Tables(players, points, passes, blks, poss) ==
    [player |-> players, points |-> points, passes |-> passes,
     blocks |-> blks, poss |-> poss]

Pass(p, t, r, k) == [Point |-> p, Thrower |-> t, Receiver |-> r] @@ k

(* a game whose roster points all have a Points row *)
SoundTables ==
    Tables(<< [Player |-> "A", PointsPlayed |-> <<"1">>],
              [Player |-> "B", PointsPlayed |-> <<"1">>] >>,
           << PointRow(1, 1, 1) >>,
           << Pass(1, "A", "B", AssistPass) >>,
           << >>,
           << [Point |-> 1, Possession |-> 1, Scored |-> 1] >>)

(* a game whose roster names point 2, which has no Points row *)
UnmatchedTables ==
    Tables(<< [Player |-> "A", PointsPlayed |-> <<"2", ",", "1">>] >>,
           << PointRow(1, 0, 0) >>,
           << >>,
           << [Point |-> 1, Player |-> "A"] >>,
           << >>)

(* files: are the five CSV files there; columns: do the tables have every   *)
(* column the transform indexes                                            *)
GameKinds ==
    { [files |-> "missing", columns |-> "ok", tables |-> SoundTables],
      [files |-> "ok", columns |-> "missing", tables |-> SoundTables],
      [files |-> "ok", columns |-> "ok", tables |-> SoundTables],
      [files |-> "ok", columns |-> "ok", tables |-> UnmatchedTables] }

GameDirs == {[name |-> n] @@ k : n \in GameNames, k \in GameKinds}

DistinctNames(gs) ==
    \A i, j \in DOMAIN gs : i # j => gs[i].name # gs[j].name

RECURSIVE SortedGames(_)
SortedGames(S) ==
    IF S = {} THEN <<>>
    ELSE LET m == CHOOSE x \in S : \A y \in S \ {x} : TextLess(x.name, y.name)
         IN  <<m>> \o SortedGames(S \ {m})

games_as_listed(gs) == gs

(* sorted(game_dirs) *)
sorted_games(gs) == SortedGames({gs[i] : i \in DOMAIN gs})

files_found_always(game) == TRUE

(* find_game_files: does it return (TRUE) or raise FileNotFoundError *)
find_game_files(game) == game.files = "ok"

load_and_build_lenient(game) ==
    build_per_player_per_point(game.tables.player, game.tables.points,
                               game.tables.passes, game.tables.blocks,
                               game.tables.poss, game.name)

(* pd.read_csv of the five files and build_per_player_per_point; a table    *)
(* that lacks an indexed column raises KeyError inside the transform        *)
load_and_build(game) ==
    IF game.columns = "missing"
    THEN [raised |-> TRUE, rows |-> <<>>, ptsum |-> <<>>]
    ELSE build_per_player_per_point(game.tables.player, game.tables.points,
                                    game.tables.passes, game.tables.blocks,
                                    game.tables.poss, game.name)

RowsFile == "per_player_per_point.csv"
PtsumFile == "point_level_summary.csv"

FileWrite(dir, file, table) == [dir |-> dir, file |-> file, table |-> table]

GameIdle ==
    /\ df_player = <<>>
    /\ df_points = <<>>
    /\ df_passes = <<>>
    /\ df_blocks = <<>>
    /\ df_poss = <<>>
    /\ pc = "idle"
    /\ roster = <<>>
    /\ actions = <<>>
    /\ ctx = <<>>

InitMain ==
    /\ GameIdle
    /\ out = NoOutput
    /\ gi = 0
    /\ all_rows = <<>>
    /\ all_ptsum = <<>>
    /\ written = <<>>
    /\ season = <<>>
    /\ \/ /\ bpc = "start"
          /\ games \in {gs \in SeqsUpTo(GameDirs, MaxGames) : DistinctNames(gs)}
       \/ /\ bpc = "cli"
          /\ games \in [1..1 -> GameDirs]

(* batch main, lines 86-94: list the game folders, exit when there is none, *)
(* else enter the loop over sorted(game_dirs)                               *)
Discover ==
    /\ bpc = "start"
    /\ IF games = <<>>
       THEN /\ bpc' = "exit"
            /\ UNCHANGED <<games, gi>>
       ELSE /\ games' = sorted_games(games)
            /\ gi' = 1
            /\ bpc' = "find"
    /\ UNCHANGED <<gameVars, pc, roster, actions, ctx, out, all_rows, all_ptsum,
                   written, season>>

(* lines 97-101: find_game_files, FileNotFoundError caught, continue *)
FindGameFiles ==
    /\ bpc = "find"
    /\ gi <= Len(games)
    /\ IF find_game_files(games[gi])
       THEN /\ bpc' = "build"
            /\ gi' = gi
       ELSE /\ bpc' = "find"
            /\ gi' = gi + 1
    /\ UNCHANGED <<gameVars, pc, roster, actions, ctx, out, games, all_rows,
                   all_ptsum, written, season>>

(* lines 103-118: read the CSVs and transform; an exception is not caught   *)
LoadAndBuild ==
    /\ bpc = "build"
    /\ LET r == load_and_build(games[gi])
       IN  IF r.raised
           THEN /\ bpc' = "crashed"
                /\ out' = out
           ELSE /\ bpc' = "save_rows"
                /\ out' = r
    /\ UNCHANGED <<gameVars, pc, roster, actions, ctx, games, gi, all_rows,
                   all_ptsum, written, season>>

(* line 122 *)
SaveRows ==
    /\ bpc = "save_rows"
    /\ written' = Append(written, FileWrite(games[gi].name, RowsFile, out.rows))
    /\ bpc' = "save_ptsum"
    /\ UNCHANGED <<gameVars, pc, roster, actions, ctx, out, games, gi, all_rows,
                   all_ptsum, season>>

(* lines 123-126 *)
SavePtsum ==
    /\ bpc = "save_ptsum"
    /\ written' = Append(written, FileWrite(games[gi].name, PtsumFile, out.ptsum))
    /\ all_rows' = Append(all_rows, out.rows)
    /\ all_ptsum' = Append(all_ptsum, out.ptsum)
    /\ gi' = gi + 1
    /\ bpc' = "find"
    /\ UNCHANGED <<gameVars, pc, roster, actions, ctx, out, games, season>>

(* lines 129-140: the season-level tables, if any game was appended *)
Aggregate ==
    /\ bpc = "find"
    /\ gi > Len(games)
    /\ season' = IF all_rows # <<>>
                 THEN <<ConcatAll(all_rows), ConcatAll(all_ptsum)>>
                 ELSE season
    /\ bpc' = "done"
    /\ UNCHANGED <<gameVars, pc, roster, actions, ctx, out, games, gi, all_rows,
                   all_ptsum, written>>

(* statto_bridge.main, lines 247-262: read the five CSVs and transform *)
CliBuild ==
    /\ bpc = "cli"
    /\ LET r == load_and_build(games[1])
       IN  IF games[1].files = "missing" \/ r.raised
           THEN /\ bpc' = "cli_failed"
                /\ out' = out
           ELSE /\ bpc' = "cli_rows"
                /\ out' = r
    /\ gi' = 1
    /\ UNCHANGED <<gameVars, pc, roster, actions, ctx, games, all_rows, all_ptsum,
                   written, season>>

(* statto_bridge.main, line 266 *)
CliSaveRows ==
    /\ bpc = "cli_rows"
    /\ written' = Append(written, FileWrite(games[1].name, RowsFile, out.rows))
    /\ bpc' = "cli_ptsum"
    /\ UNCHANGED <<gameVars, pc, roster, actions, ctx, out, games, gi, all_rows,
                   all_ptsum, season>>

(* statto_bridge.main, line 267 *)
CliSavePtsum ==
    /\ bpc = "cli_ptsum"
    /\ written' = Append(written, FileWrite(games[1].name, PtsumFile, out.ptsum))
    /\ bpc' = "cli_done"
    /\ UNCHANGED <<gameVars, pc, roster, actions, ctx, out, games, gi, all_rows,
                   all_ptsum, season>>

NextMain ==
    \/ Discover
    \/ FindGameFiles
    \/ LoadAndBuild
    \/ SaveRows
    \/ SavePtsum
    \/ Aggregate
    \/ CliBuild
    \/ CliSaveRows
    \/ CliSavePtsum

SpecMain == InitMain /\ [][NextMain]_vars

---------------------------------------------------------------------------
(* Properties of one game's fact table (specification Spec) *)

Roster == expand_roster_from_player_stats(df_player)
RosterPair(pl, p) == \E i \in DOMAIN Roster : Roster[i] = [Player |-> pl, Point |-> p]

DuplicateFreeTokens ==
    \A r \in DOMAIN df_player :
        LET toks == numeric_tokens(df_player[r].PointsPlayed)
        IN  \A i, j \in DOMAIN toks : i # j => ToInt(toks[i]) # ToInt(toks[j])

UniquePoints ==
    \A i, j \in DOMAIN df_points : i # j => df_points[i].Point # df_points[j].Point

FactRows(pl, p) ==
    {i \in DOMAIN out.rows :
        out.rows[i].player = pl /\ out.rows[i].point_uid = point_uid(GameId, p)}

Thrown(t, pl, p) == {i \in DOMAIN t : t[i].Point = p /\ t[i].Thrower = pl}
Caught(t, pl, p) ==
    {i \in DOMAIN t : t[i].Point = p /\ t[i].Receiver = pl /\ t[i].Turnover = 0}
Blocked(pl, p) ==
    {i \in DOMAIN df_blocks : df_blocks[i].Point = p /\ df_blocks[i].Player = pl}

(* C1: with duplicate-free points-played tokens and unique point numbers in *)
(* the Points table, the returned fact table has exactly one row for every  *)
(* (player, point) pair of the expanded roster and no other row, whatever   *)
(* the Passes, Blocks and Possessions tables hold.                          *)
C1_OneRowPerRosterPair ==
    (pc = "returned" /\ DuplicateFreeTokens /\ UniquePoints) =>
        /\ \A pl \in Players : \A p \in PointNumbers :
              Cardinality(FactRows(pl, p)) = IF RosterPair(pl, p) THEN 1 ELSE 0
        /\ Len(out.rows) = Len(Roster)

C1_Witness ==
    /\ pc = "returned"
    /\ DuplicateFreeTokens
    /\ UniquePoints
    /\ \E pl \in Players : \E p \in PointNumbers :
          /\ RosterPair(pl, p)
          /\ Thrown(df_passes, pl, p) # {}
          /\ Blocked(pl, p) # {}
          /\ Cardinality(FactRows(pl, p)) = 1

(* C2: in every row of the returned fact table, touches = throws + catches, *)
(* catches being the number of completed passes the player received on the  *)
(* point; so touches >= throws.                                             *)
C2_TouchesAreThrowsPlusCatches ==
    pc = "returned" =>
        \A pl \in Players : \A p \in PointNumbers : \A i \in FactRows(pl, p) :
            /\ out.rows[i].touches =
                   out.rows[i].throws + Cardinality(Caught(df_passes, pl, p))
            /\ out.rows[i].touches >= out.rows[i].throws

C2_Witness ==
    /\ pc = "returned"
    /\ \E pl \in Players : \E p \in PointNumbers : \E i \in FactRows(pl, p) :
          /\ out.rows[i].throws > 0
          /\ Caught(df_passes, pl, p) # {}
          /\ out.rows[i].touches > out.rows[i].throws

ZeroCols == {"touches", "throws", "completions", "assists", "secondary_assists",
             "goals", "turnovers", "blocks", "hucks", "swings", "dumps"}

NoEvents(pl, p) ==
    /\ Thrown(df_passes, pl, p) = {}
    /\ Caught(df_passes, pl, p) = {}
    /\ Blocked(pl, p) = {}

RosterPointsKnown ==
    \A i \in DOMAIN Roster : \E j \in DOMAIN df_points :
        df_points[j].Point = Roster[i].Point

(* C10: a roster player with no pass event (thrown, or received complete)   *)
(* and no block on a point still has a fact row for it, with touches,       *)
(* throws, completions, assists, secondary_assists, goals, turnovers,       *)
(* blocks, hucks, swings and dumps all 0; the missing statistics never make *)
(* the transform fail, and no numeric output cell is missing.               *)
C10_ZeroFilledRow ==
    /\ (pc # "game" /\ RosterPointsKnown) => pc = "returned"
    /\ pc = "returned" =>
          /\ \A pl \in Players : \A p \in PointNumbers :
                (RosterPair(pl, p) /\ NoEvents(pl, p)) =>
                    /\ FactRows(pl, p) # {}
                    /\ \A i \in FactRows(pl, p) : \A c \in ZeroCols :
                          out.rows[i][c] = 0
          /\ \A i \in DOMAIN out.rows : out.rows[i].yards_gain_m # Null

C10_Witness ==
    /\ pc = "returned"
    /\ df_passes # <<>>
    /\ df_blocks # <<>>
    /\ \E pl \in Players : \E p \in PointNumbers :
          /\ RosterPair(pl, p)
          /\ NoEvents(pl, p)
          /\ \E i \in FactRows(pl, p) : out.rows[i].touches = 0

---------------------------------------------------------------------------
(* Properties of the point context (specification SpecContext) *)

PossOfPoint(p) == {j \in DOMAIN df_poss : df_poss[j].Point = p}

(* C3: every point context row with break_scored = 1 has break_chance = 1,  *)
(* however many possession rows the point has (none included).              *)
C3_BreakScoredImpliesBreakChance ==
    pc = "built" =>
        \A i \in DOMAIN ctx : ctx[i].break_scored = 1 => ctx[i].break_chance = 1

(* C4: in every point context row, clean_hold = 1 implies hold = 1; a point *)
(* started on offense has exactly one of hold and broken set, a point not   *)
(* started on offense has neither.                                          *)
C4_HoldAndBroken ==
    pc = "built" =>
        \A i \in DOMAIN ctx :
            /\ ctx[i].clean_hold = 1 => ctx[i].hold = 1
            /\ ctx[i].hold \in {0, 1} /\ ctx[i].broken \in {0, 1}
            /\ ctx[i].Started = 1 => ctx[i].hold + ctx[i].broken = 1
            /\ ctx[i].Started # 1 => ctx[i].hold = 0 /\ ctx[i].broken = 0

C4_Witness ==
    /\ pc = "built"
    /\ \E i, j \in DOMAIN ctx :
          /\ ctx[i].clean_hold = 1 /\ ctx[i].hold = 1
          /\ ctx[j].broken = 1 /\ ctx[j].hold = 0

(* C5: the point context, and the point-level summary made from it, has     *)
(* exactly one row per row of the Points table, in the same order, whatever *)
(* the Possessions table holds; a point without possession rows has         *)
(* num_possessions, first_possession_scored and any_possession_scored 0.    *)
C5_OneContextRowPerPoint ==
    pc = "built" =>
        /\ Len(ctx) = Len(df_points)
        /\ Len(point_summary(ctx, GameId)) = Len(df_points)
        /\ \A i \in DOMAIN ctx :
              /\ ctx[i].Point = df_points[i].Point
              /\ PossOfPoint(ctx[i].Point) = {} =>
                    /\ ctx[i].num_possessions = 0
                    /\ ctx[i].first_possession_scored = 0
                    /\ ctx[i].any_possession_scored = 0

C5_Witness ==
    /\ pc = "built"
    /\ \E i, j \in DOMAIN ctx :
          /\ Cardinality(PossOfPoint(ctx[i].Point)) >= 2
          /\ PossOfPoint(ctx[j].Point) = {}
          /\ ctx[j].num_possessions = 0
    /\ Len(ctx) = 2

---------------------------------------------------------------------------
(* Properties of the pass aggregate (specification SpecPasses) *)

ActionRows(pl, p) ==
    {i \in DOMAIN actions : actions[i].Point = p /\ actions[i].Player = pl}

RECURSIVE SumOver(_, _)
SumOver(t, I) ==
    IF I = {} THEN 0
    ELSE LET i == CHOOSE i \in I : TRUE
         IN  t[i].Distance + SumOver(t, I \ {i})

(* C8: per (point, player), throws counts the passes the player threw,      *)
(* completions those with turnover = 0, turnovers those with turnover = 1,  *)
(* assists those flagged assist; catches counts the passes with             *)
(* turnover = 0 the player received, goals those of them flagged assist,    *)
(* received_yards their distance: a turnover adds nothing on the            *)
(* receiver's side.                                                         *)
C8_PassCounts ==
    pc = "aggregated" =>
        \A pl \in Players : \A p \in PointNumbers : \A i \in ActionRows(pl, p) :
            LET th == Thrown(df_passes, pl, p)
                ca == Caught(df_passes, pl, p)
            IN  /\ actions[i].throws = Cardinality(th)
                /\ actions[i].completions =
                       Cardinality({j \in th : df_passes[j].Turnover = 0})
                /\ actions[i].turnovers =
                       Cardinality({j \in th : df_passes[j].Turnover = 1})
                /\ actions[i].assists =
                       Cardinality({j \in th : df_passes[j].Assist = 1})
                /\ actions[i].catches = Cardinality(ca)
                /\ actions[i].goals =
                       Cardinality({j \in ca : df_passes[j].Assist = 1})
                /\ actions[i].received_yards = SumOver(df_passes, ca)

C8_Witness ==
    /\ pc = "aggregated"
    /\ \E pl \in Players : \E p \in PointNumbers : \E i \in ActionRows(pl, p) :
          /\ actions[i].catches = 1
          /\ actions[i].goals = 1
          /\ \E j \in DOMAIN df_passes :
                /\ df_passes[j].Point = p
                /\ df_passes[j].Receiver = pl
                /\ df_passes[j].Turnover = 1
                /\ df_passes[j].Assist = 1

(* C9: the pass aggregate has exactly one row for every (point, player)     *)
(* that threw a pass or received a completed pass on the point, and no      *)
(* other row; a player who only threw has catches = goals = 0, one who only *)
(* caught has throws = completions = turnovers = 0, one who did both has    *)
(* one row with both sides' counts.                                         *)
C9_OneRowPerActivePair ==
    pc = "aggregated" =>
        /\ \A pl \in Players : \A p \in PointNumbers :
              LET th == Thrown(df_passes, pl, p)
                  ca == Caught(df_passes, pl, p)
              IN  /\ Cardinality(ActionRows(pl, p)) =
                         IF th # {} \/ ca # {} THEN 1 ELSE 0
                  /\ \A i \in ActionRows(pl, p) :
                        /\ ca = {} =>
                              actions[i].catches = 0 /\ actions[i].goals = 0
                        /\ th = {} =>
                              /\ actions[i].throws = 0
                              /\ actions[i].completions = 0
                              /\ actions[i].turnovers = 0
                        /\ (th # {} /\ ca # {}) =>
                              /\ actions[i].throws = Cardinality(th)
                              /\ actions[i].catches = Cardinality(ca)
        /\ \A i \in DOMAIN actions :
              actions[i].Player \in Players /\ actions[i].Point \in PointNumbers

C9_Witness ==
    /\ pc = "aggregated"
    /\ Len(actions) = 2
    /\ \E i, j \in DOMAIN actions :
          /\ actions[i].throws > 0 /\ actions[i].catches > 0
          /\ actions[j].throws > 0 /\ actions[j].catches = 0

---------------------------------------------------------------------------
(* Properties of the drivers (specification SpecMain) *)

Succeeds(g) == g.files = "ok" /\ ~load_and_build(g).raised
BadInput(g) == g.files = "missing" \/ g.columns = "missing"

WrittenFor(g) == {i \in DOMAIN written : written[i].dir = g.name}

(* C6: in the batch driver a game that fails, by a missing file or by an    *)
(* error raised in the transform, is the only game aborted: once the run is *)
(* over every game whose own processing succeeds has its two tables         *)
(* written, and the season-level tables are written if there is one.        *)
C6_FailureAbortsThatGameOnly ==
    bpc \in {"done", "crashed"} =>
        /\ \A i \in DOMAIN games :
              Succeeds(games[i]) => Cardinality(WrittenFor(games[i])) = 2
        /\ (\E i \in DOMAIN games : Succeeds(games[i])) => season # <<>>

SeasonRowsOf(g) ==
    IF season = <<>> THEN {}
    ELSE {<<1, i>> : i \in {i \in DOMAIN season[1] : season[1][i].game_id = g.name}}
         \cup
         {<<2, i>> : i \in {i \in DOMAIN season[2] : season[2][i].game_id = g.name}}

---------------------------------------------------------------------------
(* One game with point numbers of one, two and three digits (specification *)
(* SpecUid): the same transform, on a roster and a Points table only        *)

WidePoints == {1, 9, 10, 99, 100, 101}

UidRaws ==
    {<<>>} \cup {Decimal(p) : p \in WidePoints}
           \cup {Decimal(p) \o <<",">> \o Decimal(q) : p, q \in WidePoints}

InitUid ==
    /\ df_player \in {<< [Player |-> "A", PointsPlayed |-> raw] >> : raw \in UidRaws}
    /\ df_points \in SeqsUpTo({PointRow(p, 1, 1) : p \in WidePoints}, MaxPointRows)
    /\ df_passes = <<>>
    /\ df_blocks = <<>>
    /\ df_poss = <<>>
    /\ pc = "game"
    /\ roster = <<>>
    /\ actions = <<>>
    /\ ctx = <<>>
    /\ out = NoOutput
    /\ BatchIdle

SpecUid == InitUid /\ [][Next]_vars

UidsDistinct(t) ==
    \A i, j \in DOMAIN t : i # j => t[i].point_uid # t[j].point_uid

(* C11 as stated: within one game the point_uid values of the point-level   *)
(* summary rows are pairwise distinct.                                      *)
C11_SummaryUidsDistinct ==
    pc = "returned" => UidsDistinct(out.ptsum)

(* C11 as amended: when each point number occurs once in the Points table,  *)
(* the point_uid values of the point-level summary rows are pairwise        *)
(* distinct.                                                                *)
C11_SummaryUidsDistinctForUniquePoints ==
    (pc = "returned" /\ UniquePoints) => UidsDistinct(out.ptsum)

C11_Witness ==
    /\ pc = "returned"
    /\ UniquePoints
    /\ \E i, j \in DOMAIN out.ptsum :
          /\ out.ptsum[i].Point = 1
          /\ out.ptsum[j].Point = 101
    /\ UidsDistinct(out.ptsum)

ExpectedDigits(p) ==
    IF p < 10 THEN <<"0", Digits[p + 1]>>
    ELSE IF p < 100 THEN <<Digits[(p \div 10) + 1], Digits[(p % 10) + 1]>>
    ELSE <<Digits[(p \div 100) + 1], Digits[((p \div 10) % 10) + 1],
           Digits[(p % 10) + 1]>>

ExpectedUid(p) == GameId \o <<"_", "P">> \o ExpectedDigits(p)

(* C17: point_uid is game_id, "_P" and the point number in decimal, padded  *)
(* with a zero to two digits, in both output tables; with unique point      *)
(* numbers in the Points table the fact row of roster entry i carries the   *)
(* point_uid of exactly one summary row, the one of its own point.          *)
C17_PointUidFormat ==
    pc = "returned" =>
        /\ \A j \in DOMAIN out.ptsum :
              out.ptsum[j].point_uid = ExpectedUid(out.ptsum[j].Point)
        /\ UniquePoints =>
              /\ Len(out.rows) = Len(Roster)
              /\ \A i \in DOMAIN out.rows :
                    /\ out.rows[i].point_uid = ExpectedUid(Roster[i].Point)
                    /\ \E j \in DOMAIN out.ptsum :
                          /\ out.ptsum[j].Point = Roster[i].Point
                          /\ {k \in DOMAIN out.ptsum :
                                 out.ptsum[k].point_uid = out.rows[i].point_uid}
                             = {j}

C17_Witness ==
    /\ pc = "returned"
    /\ UniquePoints
    /\ Len(out.ptsum) = 2
    /\ \E i, k \in DOMAIN out.rows :
          /\ out.rows[i].point_uid = <<"G", "1", "_", "P", "0", "9">>
          /\ out.rows[k].point_uid = <<"G", "1", "_", "P", "1", "0", "0">>

---------------------------------------------------------------------------
(* The roster expander on every points-played text within the bound, then   *)
(* the transform on the game (specification SpecRoster)                     *)

RawAlphabet == {"1", "2", ",", " ", "x"}
MissingRaw == <<"n", "a", "n">>              \* str() of a missing cell

RosterInputs ==
    {<< [Player |-> "A", PointsPlayed |-> raw] >> :
        raw \in SeqsUpTo(RawAlphabet, MaxRawLen)}
    \cup
    {<< [Player |-> "A", PointsPlayed |-> raw],
        [Player |-> "B", PointsPlayed |-> other] >> :
        raw \in SeqsUpTo(RawAlphabet, MaxRawLen),
        other \in {<<>>, <<"2">>, MissingRaw}}

InitRoster ==
    /\ df_player \in RosterInputs
    /\ df_points = << PointRow(1, 1, 1), PointRow(2, 0, 1) >>
    /\ df_passes = <<>>
    /\ df_blocks = <<>>
    /\ df_poss = <<>>
    /\ pc = "roster"
    /\ roster = <<>>
    /\ actions = <<>>
    /\ ctx = <<>>
    /\ out = NoOutput
    /\ BatchIdle

(* build_per_player_per_point, line 166 *)
ExpandRoster ==
    /\ pc = "roster"
    /\ roster' = expand_roster_from_player_stats(df_player)
    /\ pc' = "game"
    /\ UNCHANGED <<gameVars, actions, ctx, out, batchVars>>

NextRoster == ExpandRoster \/ Build

SpecRoster == InitRoster /\ [][NextRoster]_vars

(* the comma-separated items of a text, by position: item (a, b) is the     *)
(* text strictly between two neighbouring cuts a and b                      *)
Cuts(r) == {0, Len(r) + 1} \cup {i \in DOMAIN r : r[i] = ","}
Items(r) ==
    {ab \in Cuts(r) \X Cuts(r) :
        ab[1] < ab[2] /\ \A c \in Cuts(r) : ~(ab[1] < c /\ c < ab[2])}

(* the digits l..h of an item that is digits between optional blanks *)
DigitSpans(r, ab) ==
    {lh \in ((ab[1] + 1)..(ab[2] - 1)) \X ((ab[1] + 1)..(ab[2] - 1)) :
        /\ lh[1] <= lh[2]
        /\ \A i \in lh[1]..lh[2] : r[i] \in {"0", "1", "2", "3", "4", "5",
                                              "6", "7", "8", "9"}
        /\ \A i \in ((ab[1] + 1)..(lh[1] - 1)) \cup ((lh[2] + 1)..(ab[2] - 1)) :
              r[i] = " "}

RECURSIVE Pow10(_)
Pow10(n) == IF n = 0 THEN 1 ELSE 10 * Pow10(n - 1)

RECURSIVE SpanValue(_, _, _)
SpanValue(r, l, h) ==
    IF l > h THEN 0
    ELSE DigitVal(r[l]) * Pow10(h - l) + SpanValue(r, l + 1, h)

NumericItemStarts(r) == {ab[1] : ab \in {x \in Items(r) : DigitSpans(r, x) # {}}}

ItemValue(r, a) ==
    LET ab == CHOOSE x \in Items(r) : x[1] = a
        lh == CHOOSE x \in DigitSpans(r, ab) : TRUE
    IN  SpanValue(r, lh[1], lh[2])

ExpectedEntries(row) ==
    LET starts == SortedInts(NumericItemStarts(row.PointsPlayed))
    IN  [k \in DOMAIN starts |->
            [Player |-> row.Player,
             Point |-> ItemValue(row.PointsPlayed, starts[k])]]

(* C12: the roster holds, per player row and in list order, one (player,    *)
(* point) row per numeric item of the comma-separated points-played text;   *)
(* other items are skipped without error; a player whose text is empty or   *)
(* missing has no roster row and no row in the returned fact table.         *)
C12_RosterExpansion ==
    /\ pc # "roster" =>
          roster = ConcatAll([k \in DOMAIN df_player |->
                                 ExpectedEntries(df_player[k])])
    /\ pc = "returned" =>
          \A k \in DOMAIN df_player :
              df_player[k].PointsPlayed \in {<<>>, MissingRaw} =>
                  /\ \A i \in DOMAIN roster : roster[i].Player # df_player[k].Player
                  /\ \A i \in DOMAIN out.rows :
                        out.rows[i].player # df_player[k].Player

C12_Witness ==
    /\ pc = "returned"
    /\ Len(df_player) = 2
    /\ df_player[1].PointsPlayed = <<"2", ",", " ", "1">>
    /\ df_player[2].PointsPlayed = MissingRaw
    /\ roster = << [Player |-> "A", Point |-> 2], [Player |-> "A", Point |-> 1] >>
    /\ Len(out.rows) = 2

---------------------------------------------------------------------------
(* The season-level tables (specification SpecMain) *)

NameOrder == << <<"G", "1">>, <<"G", "1", "0">>, <<"G", "2">>, <<"G", "3">> >>
NameRank(n) == CHOOSE i \in DOMAIN NameOrder : NameOrder[i] = n

WritesOf(file) == SelectSeq(written, LAMBDA w : w.file = file)
TablesOf(ws) == [i \in DOMAIN ws |-> ws[i].table]

(* C13: the season-level tables are the per-game tables of the games        *)
(* processed successfully, concatenated in ascending order of folder name   *)
(* with each game's rows in their own order; a skipped game has no row in   *)
(* them; they are written only at the end of a run in which a game          *)
(* succeeded.                                                               *)
C13_SeasonIsConcatenation ==
    /\ bpc # "done" => season = <<>>
    /\ (bpc = "done" /\ WritesOf(RowsFile) = <<>>) => season = <<>>
    /\ (bpc = "done" /\ WritesOf(RowsFile) # <<>>) =>
          /\ season = << ConcatAll(TablesOf(WritesOf(RowsFile))),
                         ConcatAll(TablesOf(WritesOf(PtsumFile))) >>
          /\ \A i, j \in DOMAIN WritesOf(RowsFile) :
                i < j => NameRank(WritesOf(RowsFile)[i].dir)
                             < NameRank(WritesOf(RowsFile)[j].dir)
          /\ \A i \in DOMAIN WritesOf(RowsFile) :
                WritesOf(PtsumFile)[i].dir = WritesOf(RowsFile)[i].dir
          /\ {WritesOf(RowsFile)[i].dir : i \in DOMAIN WritesOf(RowsFile)}
                = {games[i].name : i \in {k \in DOMAIN games : games[k].files = "ok"}}
          /\ \A i \in DOMAIN games :
                games[i].files = "missing" => SeasonRowsOf(games[i]) = {}

C13_Witness ==
    /\ bpc = "done"
    /\ Len(games) = 3
    /\ \E i \in DOMAIN games : games[i].files = "missing"
    /\ Len(WritesOf(RowsFile)) = 2
    /\ WritesOf(RowsFile)[1].dir = <<"G", "1", "0">>
    /\ WritesOf(RowsFile)[2].dir = <<"G", "2">>
    /\ Len(season[1]) = 4

---------------------------------------------------------------------------
(* Blocks in the fact table (specification Spec) *)

(* C15: the blocks value of a fact row is the number of block events of its *)
(* player on its point; an empty Blocks table gives an empty block          *)
(* aggregate, raises nothing, and leaves blocks = 0 in every fact row.      *)
C15_BlockCounts ==
    /\ pc = "returned" =>
          \A pl \in Players : \A p \in PointNumbers : \A i \in FactRows(pl, p) :
              out.rows[i].blocks = Cardinality(Blocked(pl, p))
    /\ df_blocks = <<>> =>
          /\ aggregate_blocks(df_blocks) = <<>>
          /\ (pc # "game" /\ RosterPointsKnown) => pc = "returned"
          /\ pc = "returned" =>
                \A i \in DOMAIN out.rows : out.rows[i].blocks = 0

C15_Witness ==
    /\ pc = "returned"
    /\ \E i, j \in DOMAIN out.rows :
          /\ out.rows[i].blocks = 2
          /\ out.rows[j].blocks = 0

---------------------------------------------------------------------------
(* Possession summaries of a point (specification SpecContext) *)

LowestRows(p) ==
    {j \in PossOfPoint(p) :
        \A k \in PossOfPoint(p) : df_poss[j].Possession <= df_poss[k].Possession}
EarliestLowest(p) == CHOOSE j \in LowestRows(p) : \A k \in LowestRows(p) : j <= k
DistinctPossessions(p) == {df_poss[j].Possession : j \in PossOfPoint(p)}
AnyScored(p) == IF \E j \in PossOfPoint(p) : df_poss[j].Scored = 1 THEN 1 ELSE 0

(* C16 as stated: for every point with possession rows, in any row order,   *)
(* num_possessions is the number of distinct possession indices,            *)
(* first_possession_scored is the scored flag of the possession with the    *)
(* lowest index (of every row that carries the lowest index), and           *)
(* any_possession_scored is the OR of the flags; first = 1 implies any = 1. *)
C16_PossessionSummaries ==
    pc = "built" =>
        \A i \in DOMAIN ctx :
            LET p == ctx[i].Point
            IN  PossOfPoint(p) # {} =>
                  /\ ctx[i].num_possessions = Cardinality(DistinctPossessions(p))
                  /\ \A j \in LowestRows(p) :
                        ctx[i].first_possession_scored = df_poss[j].Scored
                  /\ ctx[i].any_possession_scored = AnyScored(p)
                  /\ ctx[i].first_possession_scored = 1 =>
                        ctx[i].any_possession_scored = 1

(* C16 amended: as above, but first_possession_scored is the scored flag of *)
(* the earliest-listed row among the rows with the lowest possession index; *)
(* when the lowest index occurs once, that is the flag of that possession.  *)
C16_PossessionSummariesEarliestLowest ==
    pc = "built" =>
        \A i \in DOMAIN ctx :
            LET p == ctx[i].Point
            IN  PossOfPoint(p) # {} =>
                  /\ ctx[i].num_possessions = Cardinality(DistinctPossessions(p))
                  /\ ctx[i].first_possession_scored =
                        df_poss[EarliestLowest(p)].Scored
                  /\ ctx[i].any_possession_scored = AnyScored(p)
                  /\ ctx[i].first_possession_scored = 1 =>
                        ctx[i].any_possession_scored = 1

C16_Witness ==
    /\ pc = "built"
    /\ \E i \in DOMAIN ctx :
          LET p == ctx[i].Point
          IN  /\ PossOfPoint(p) = {1, 2}
              /\ df_poss[1].Possession > df_poss[2].Possession
              /\ df_poss[1].Scored = 0
              /\ df_poss[2].Scored = 1
              /\ ctx[i].first_possession_scored = 1
              /\ ctx[i].num_possessions = 2

---------------------------------------------------------------------------
(* A roster point without a Points row (specification Spec) *)

LineOf(soff) == IF soff = 1 THEN "O" ELSE "D"

(* C18: when a roster entry names a point that has no row in the Points     *)
(* table, the build raises and returns neither table; a build that returns  *)
(* has a fact row for every roster entry, and every fact row carries the    *)
(* result and line of a Points row of its point.                            *)
C18_UnknownRosterPointFails ==
    /\ (pc # "game" /\ ~RosterPointsKnown) =>
          /\ pc = "raised"
          /\ out.rows = <<>>
          /\ out.ptsum = <<>>
    /\ pc = "returned" =>
          /\ \A e \in DOMAIN Roster :
                FactRows(Roster[e].Player, Roster[e].Point) # {}
          /\ \A pl \in Players : \A p \in PointNumbers : \A i \in FactRows(pl, p) :
                \E j \in DOMAIN df_points :
                    /\ df_points[j].Point = p
                    /\ out.rows[i].point_result = df_points[j].Scored
                    /\ out.rows[i].team_line = LineOf(df_points[j].Started)

C18_Witness ==
    /\ pc = "raised"
    /\ out.rows = <<>>
    /\ \E e, f \in DOMAIN Roster :
          /\ \E j \in DOMAIN df_points : df_points[j].Point = Roster[e].Point
          /\ \A j \in DOMAIN df_points : df_points[j].Point # Roster[f].Point

============================================================================
